---- MODULE Spec2Model ----
(***************************************************************************)
(* A model of the Fractal renderer (src/src/main.cpp): main's              *)
(* configuration step, createFractal's pixel traversal with its skip       *)
(* test, classification loop, statistics and cancellation polls, iterate,  *)
(* can_skip and colorize.                                                  *)
(*                                                                         *)
(* kompleks_type (long double) is modelled as binary fixed point with      *)
(* FracBits fractional bits: a finite number is an integer count of        *)
(* 1/Scale units with magnitude at most MaxReal; a result beyond that      *)
(* overflows to an infinity, and INF, NINF and NAN behave as the IEEE      *)
(* values do (NAN compares false with everything, itself included).        *)
(* Every product and quotient is rounded to the nearest unit, as the       *)
(* floating-point unit rounds every result.                                *)
(***************************************************************************)
EXTENDS Integers, Sequences, FiniteSets, TLC

\* ------------------------------------------------------------------ bounds
\* fractional bits of the fixed-point stand-in for long double
FracBits == 10
\* largest finite magnitude of a kompleks_type
MaxReal == 30000
\* largest iteration budget (-i) the configurations draw from
MaxIter == 3
\* largest periodicity window (-pc)
MaxWindow == 2
\* largest picture size (-r)
MaxDim == 2
\* the sample points of the skip test are the multiples of 1/GridDen
GridDen == 16

Scale == 2^FracBits
\* largest finite magnitude, in units of 1/Scale
MaxRaw == MaxReal * Scale

\* ------------------------------------------------------- kompleks_type
INF == MaxRaw + 1
NINF == -INF
NAN == MaxRaw + 2

IsNan(a) == a = NAN
IsFinite(a) == a >= -MaxRaw /\ a <= MaxRaw

\* a finite result that left the representable range becomes an infinity
Sat(v) == IF v > MaxRaw THEN INF ELSE IF v < -MaxRaw THEN NINF ELSE v

Sgn(a) == IF a > 0 THEN 1 ELSE IF a < 0 THEN -1 ELSE 0
AbsInt(a) == IF a < 0 THEN -a ELSE a

\* p / q rounded to the nearest integer, halves away from zero (q > 0)
RoundDiv(p, q) == Sgn(p) * ((2 * AbsInt(p) + q) \div (2 * q))

\* an integer (an iteration count, a literal) as a kompleks_type
FromInt(k) == IF AbsInt(k) > MaxReal THEN Sgn(k) * INF ELSE k * Scale

\* a * b / Scale for finite a, b >= 0, from the whole and fractional parts of
\* the factors; `half` is what is added before the last digit is cut
\* (Scale \div 2 rounds to nearest, Scale - 1 rounds up)
MulParts(a, b, half) ==
  LET ah == a \div Scale
      al == a % Scale
      bh == b \div Scale
      bl == b % Scale
  IN IF ah * bh > MaxReal THEN INF
     ELSE Sat(ah * bh * Scale + ah * bl + al * bh + (al * bl + half) \div Scale)

\* the first k binary digits of r / b, for 0 <= r < b
RECURSIVE DivBits(_, _, _)
DivBits(r, b, k) ==
  IF k = 0 THEN 0
  ELSE LET bit == IF 2 * r >= b THEN 1 ELSE 0
       IN bit * 2^(k - 1) + DivBits(2 * r - bit * b, b, k - 1)

\* a * Scale / b for finite a >= 0, b > 0, rounded to nearest
DivParts(a, b) ==
  IF a \div b > MaxReal THEN INF
  ELSE Sat((a \div b) * Scale + (DivBits(a % b, b, FracBits + 1) + 1) \div 2)

FNeg(a) == IF IsNan(a) THEN NAN ELSE -a

FAdd(a, b) ==
  IF IsNan(a) \/ IsNan(b) THEN NAN
  ELSE IF (a = INF /\ b = NINF) \/ (a = NINF /\ b = INF) THEN NAN
  ELSE IF a = INF \/ b = INF THEN INF
  ELSE IF a = NINF \/ b = NINF THEN NINF
  ELSE Sat(a + b)

FSub(a, b) == FAdd(a, FNeg(b))

FMul(a, b) ==
  IF IsNan(a) \/ IsNan(b) THEN NAN
  ELSE IF ~IsFinite(a) \/ ~IsFinite(b)
       THEN (IF a = 0 \/ b = 0 THEN NAN
             ELSE IF Sgn(a) * Sgn(b) > 0 THEN INF ELSE NINF)
  ELSE Sgn(a) * Sgn(b) * MulParts(AbsInt(a), AbsInt(b), Scale \div 2)

FDiv(a, b) ==
  IF IsNan(a) \/ IsNan(b) THEN NAN
  ELSE IF ~IsFinite(a) /\ ~IsFinite(b) THEN NAN
  ELSE IF ~IsFinite(b) THEN 0
  ELSE IF b = 0 THEN (IF a = 0 THEN NAN ELSE IF a > 0 THEN INF ELSE NINF)
  ELSE IF ~IsFinite(a) THEN (IF Sgn(a) * Sgn(b) > 0 THEN INF ELSE NINF)
  ELSE Sgn(a) * Sgn(b) * DivParts(AbsInt(a), AbsInt(b))

\* comparisons: every comparison with NAN is false
FLt(a, b) == ~IsNan(a) /\ ~IsNan(b) /\ a < b
FGt(a, b) == FLt(b, a)
FLe(a, b) == ~IsNan(a) /\ ~IsNan(b) /\ a <= b
FEq(a, b) == ~IsNan(a) /\ ~IsNan(b) /\ a = b

FAbs(a) == IF IsNan(a) THEN NAN ELSE AbsInt(a)

\* the largest r in lo..(hi - 1) with r * r <= a * Scale, by bisection
RECURSIVE SqrtBetween(_, _, _)
SqrtBetween(a, lo, hi) ==
  IF hi - lo <= 1 THEN lo
  ELSE LET mid == (lo + hi) \div 2
       IN IF MulParts(mid, mid, Scale - 1) <= a THEN SqrtBetween(a, mid, hi)
          ELSE SqrtBetween(a, lo, mid)

\* the largest r in lo..(hi - 1) with r * r * r <= a * Scale^2
RECURSIVE CbrtBetween(_, _, _)
CbrtBetween(a, lo, hi) ==
  IF hi - lo <= 1 THEN lo
  ELSE LET mid == (lo + hi) \div 2
       IN IF MulParts(MulParts(mid, mid, Scale - 1), mid, Scale - 1) <= a
          THEN CbrtBetween(a, mid, hi)
          ELSE CbrtBetween(a, lo, mid)

\* std::sqrt
FSqrt(a) ==
  IF IsNan(a) \/ a < 0 THEN NAN
  ELSE IF a = INF THEN INF
  ELSE SqrtBetween(a, 0, MaxRaw + 1)

\* std::pow(a, 1.0L / 3.0L) for a >= 0
FCbrt(a) ==
  IF IsNan(a) \/ a < 0 THEN NAN
  ELSE IF a = INF THEN INF
  ELSE CbrtBetween(a, 0, MaxRaw + 1)

\* std::round: to the nearest integer, halves away from zero
FRound(a) == IF IsFinite(a) THEN FromInt(RoundDiv(a, Scale)) ELSE a

\* a decimal literal num/den of the source as a kompleks_type
Lit(num, den) == RoundDiv(num * Scale, den)

\* ------------------------------------------------------------- kompleks
K(re, im) == [real |-> re, imag |-> im]
KZero == K(0, 0)

KAdd(a, b) == K(FAdd(a.real, b.real), FAdd(a.imag, b.imag))
KSub(a, b) == K(FSub(a.real, b.real), FSub(a.imag, b.imag))
KMul(a, b) ==
  K(FSub(FMul(a.real, b.real), FMul(a.imag, b.imag)),
    FAdd(FMul(a.real, b.imag), FMul(a.imag, b.real)))
KScale(a, f) == K(FMul(a.real, f), FMul(a.imag, f))
KDivReal(a, f) == K(FDiv(a.real, f), FDiv(a.imag, f))
KConjugate(a) == K(a.real, FNeg(a.imag))
KSwap(a) == K(a.imag, a.real)
\* squared modulus
KNorm(a) == FAdd(FMul(a.real, a.real), FMul(a.imag, a.imag))
KAbs(a) == FSqrt(KNorm(a))
KReciprocal(a) == KDivReal(KConjugate(a), KNorm(a))
KDiv(a, b) == KDivReal(KMul(a, KConjugate(b)), KNorm(b))
\* operator==: both components equal, so a NAN component equals nothing
KEq(a, b) == FEq(a.real, b.real) /\ FEq(a.imag, b.imag)

\* Z^k for a whole exponent k >= 1
RECURSIVE KPowInt(_, _)
KPowInt(a, k) == IF k <= 1 THEN a ELSE KMul(KPowInt(a, k - 1), a)

\* the principal square root of a, whose modulus is r: Z^(1/2)
KSqrtOf(a, r) ==
  K(FSqrt(FMul(FAdd(r, a.real), Scale \div 2)),
    IF FLt(a.imag, 0) THEN FNeg(FSqrt(FMul(FSub(r, a.real), Scale \div 2)))
    ELSE FSqrt(FMul(FSub(r, a.real), Scale \div 2)))
KSqrt(a) == KSqrtOf(a, KAbs(a))

\* operator^: the generalized power, for the exponents the configurations
\* draw from: a whole number k >= 1, or 1/2
KPow(a, e) ==
  IF e = Scale \div 2 THEN KSqrt(a)
  ELSE KPowInt(a, e \div Scale)

\* ------------------------------------------------------------------ state
VARIABLES
  typestr,         \* main: the -t argument
  fractal_opt,     \* FractalOptions
  color_opt,       \* ColorOptions
  width_px, height_px, max_iterations, pCheckN,
  cancel,          \* volatile sig_atomic_t cancel
  elapsed,         \* a second of wall time has passed since previous_time
  ub,              \* what this build's undefined conversions yield; -1: not met yet
  pc,              \* where the program is
  pY, pX, currentPoint,
  periodic, escaped, not_escaped, skipped, run, max_n, max_period, max_period_n,
  image,           \* png::image: pixel -> colour
  pCheck, c, Z, n, \* createFractal: the window, the point, the orbit value, the index
  bug_reported,    \* "There is a bug somewhere" was printed
  hist             \* history: what was done to each pixel, the detections
                   \* <<pCheckIndex, n>>, and the first render's result

vars == <<typestr, fractal_opt, color_opt, width_px, height_px, max_iterations,
          pCheckN, cancel, elapsed, ub, pc, pY, pX, currentPoint, periodic,
          escaped, not_escaped, skipped, run, max_n, max_period, max_period_n,
          image, pCheck, c, Z, n, bug_reported, hist>>

\* ------------------------------------------------------------ FractalType
\* FRACTAL_TYPE: the names string_to_fractal_type accepts
FractalType_strings ==
  <<"mandelbrot", "julia", "burning ship", "tricorn", "neuron", "clouds", "oops",
    "stupidbrot", "untitled 1", "dots", "magnet 1", "experiment", "mandelbox",
    "negamandelbrot", "collatz", "experiment2">>
FractalType_count == Len(FractalType_strings)

\* string_to_fractal_type: the type, or "throw" for a name that is not in the list
string_to_fractal_type(t) ==
  IF \E i \in 1..FractalType_count : FractalType_strings[i] = t
  THEN t ELSE "throw"

\* ---------------------------------------------------------------- iterate
\* a fold that cuts the component off at the box
boxfold_clamped(component) ==
  IF FGt(component, FromInt(1)) THEN FromInt(1)
  ELSE IF FLt(component, FromInt(-1)) THEN FromInt(-1)
  ELSE component

\* the box fold of the mandelbox
boxfold(component) ==
  IF FGt(component, FromInt(1)) THEN FSub(FromInt(2), component)
  ELSE IF FLt(component, FromInt(-1)) THEN FSub(FromInt(-2), component)
  ELSE component

\* iterate(Z, c, n): the next orbit value, and c as the call leaves it (c is
\* passed by reference; clouds and oops assign it)
iterate(Zv, cv, nv) ==
  LET t == fractal_opt.type
      e == fractal_opt.exponent
  IN CASE t \in {"mandelbrot", "julia"} ->
            [Z |-> KAdd(KPow(Zv, e), cv), c |-> cv]
       [] t = "burning ship" ->
            [Z |-> KAdd(KPow(K(FAbs(Zv.real), FAbs(Zv.imag)), e), cv), c |-> cv]
       [] t = "tricorn" ->
            [Z |-> KAdd(KPow(KConjugate(Zv), e), cv), c |-> cv]
       [] t = "neuron" ->
            [Z |-> KAdd(KPow(KSwap(Zv), e), Zv), c |-> cv]
       [] t \in {"clouds", "oops"} ->
            [Z |-> KAdd(KPow(KSwap(Zv), e), cv), c |-> Zv]
       [] t = "stupidbrot" ->
            [Z |-> IF nv % 2 = 0 THEN KAdd(KPow(Zv, e), cv)
                                ELSE KSub(KPow(Zv, e), cv),
             c |-> cv]
       [] t = "dots" ->
            [Z |-> KMul(KPow(Zv, e), KReciprocal(cv)), c |-> cv]
       [] t = "magnet 1" ->
            [Z |-> LET q == KDiv(KAdd(KPowInt(Zv, 2), KSub(cv, K(FromInt(1), 0))),
                                 KAdd(KScale(Zv, FromInt(2)),
                                      KSub(cv, K(FromInt(2), 0))))
                   IN KPowInt(q, 2),
             c |-> cv]
       [] t = "experiment" ->
            [Z |-> KAdd(KPow(Zv, e), KReciprocal(cv)), c |-> cv]
       [] t = "mandelbox" ->
            [Z |-> LET f == K(boxfold(Zv.real), boxfold(Zv.imag))
                       g == IF FLt(KAbs(f), Lit(5, 10)) THEN KDivReal(f, Lit(25, 100))
                            ELSE IF FLt(KAbs(f), FromInt(1)) THEN KDivReal(f, KNorm(f))
                            ELSE f
                   IN KAdd(KScale(g, e), cv),
             c |-> cv]
       [] t = "negamandelbrot" ->
            [Z |-> KSub(KPow(Zv, FDiv(FromInt(1), e)), cv), c |-> cv]
       [] t = "experiment2" ->
            [Z |-> KAdd(KPow(Zv, e), KPow(cv, FDiv(FromInt(1), e))), c |-> cv]

\* --------------------------------------------------------------- can_skip
\* a skip test whose bulb has radius 1
can_skip_wide(x, y) ==
  LET x1 == FAdd(x, FromInt(1))
  IN FLt(FAdd(FMul(x1, x1), FMul(y, y)), FromInt(1))

can_skip(x, y) ==
  IF fractal_opt.single
     \/ fractal_opt.type # "mandelbrot"
     \/ fractal_opt.escape_limit # FromInt(4)
  THEN FALSE
  ELSE IF fractal_opt.exponent = FromInt(2) THEN
         LET y2 == FMul(y, y)
             xo == FSub(x, Lit(25, 100))
             q == FAdd(FMul(xo, xo), y2)
             x1 == FAdd(x, FromInt(1))
         IN \/ FLt(FMul(q, FAdd(q, xo)), FMul(Lit(25, 100), y2))
            \/ FLt(FAdd(FMul(x1, x1), y2), Lit(625, 10000))
  ELSE IF fractal_opt.exponent = FromInt(3)
          /\ LET y2 == FMul(y, y)
                 cbrt == FCbrt(FMul(FromInt(4), y2))
             IN FLt(FMul(x, x),
                    FAdd(FSub(FDiv(FromInt(4), FromInt(27)), y2),
                         FDiv(cbrt, FromInt(3))))
       THEN TRUE
  ELSE IF fractal_opt.exponent = FromInt(4) THEN
         FLt(FAdd(FMul(x, x), FMul(y, y)), Lit(2232, 10000))
  ELSE IF fractal_opt.exponent = FromInt(5) THEN
         FLt(FAdd(FMul(x, x), FMul(y, y)), Lit(2862, 10000))
  ELSE FALSE

\* --------------------------------------------------------- <cmath>, <cstdlib>
\* floor of the base-2 logarithm of a whole number m >= 1
RECURSIVE ILog2(_)
ILog2(m) == IF m <= 1 THEN 0 ELSE 1 + ILog2(m \div 2)

\* std::log: log 0 is -inf and the log of a negative number is NAN; for a
\* positive number, ln 2 times the base-2 logarithm with its fraction
\* interpolated linearly (monotone, 0 at 1, negative below 1)
FLog(a) ==
  IF IsNan(a) \/ a < 0 THEN NAN
  ELSE IF a = 0 THEN NINF
  ELSE IF a = INF THEN INF
  ELSE LET k == ILog2(a)
           frac == IF k >= FracBits THEN (a - 2^k) \div (2^(k - FracBits))
                   ELSE (a - 2^k) * 2^(FracBits - k)
           l2 == (k - FracBits) * Scale + frac
       IN RoundDiv(l2 * 693, 1000)

PI == Lit(355, 113)

\* Bhaskara's rational approximation of the sine of x in [0, PI], from
\* p = x * (PI - x)
Bhaskara(p) ==
  FDiv(FMul(FromInt(16), p),
       FSub(FMul(FromInt(5), FMul(PI, PI)), FMul(FromInt(4), p)))

\* the sine of x in [0, PI]
SinHalf(x) == Bhaskara(FMul(x, FSub(PI, x)))

\* the sine of r in [0, 2 * PI)
SinPeriod(r) == IF r <= PI THEN SinHalf(r) ELSE FNeg(SinHalf(r - PI))

\* std::sin: NAN for an infinite or NAN argument
FSin(a) == IF ~IsFinite(a) THEN NAN ELSE SinPeriod(a % (2 * PI))

\* std::cos
FCos(a) == IF ~IsFinite(a) THEN NAN ELSE FSin(a + PI \div 2)

\* a ^ b on whole numbers >= 0, bit by bit
RECURSIVE Xor(_, _)
Xor(a, b) ==
  IF a = 0 THEN b
  ELSE IF b = 0 THEN a
  ELSE ((a + b) % 2) + 2 * Xor(a \div 2, b \div 2)

\* srand(seed); the k-th rand() after it. The C library's generator is a
\* deterministic function of the seed; a linear congruential one stands for it
RECURSIVE RandState(_, _)
RandState(seed, k) ==
  IF k = 0 THEN seed % 65536
  ELSE (RandState(seed, k - 1) * 25173 + 13849) % 65536

\* a generator whose seed also depends on which run of the program it is
rand_per_run(seed, k) ==
  RandState(seed + (IF hist.first.set THEN 1 ELSE 0), k) \div 2

rand(seed, k) == RandState(seed, k) \div 2

\* the integer limits colorize uses as kompleks_type values: beyond every
\* other finite value of the model
UINT_FAST64_MAX == MaxRaw
INT128_MAX == MaxRaw

\* ---------------------------------------------------------------- HSV2RGB
\* HSV2RGB(h, 1, 1, dst) for h = m/256 with m in 0..255: the casts truncate
HSV2RGB(m) ==
  LET index == (6 * m) \div 256
      f256 == (6 * m) % 256
      v == 255
      p == 0
      q == ((256 - f256) * 255) \div 256
      t == (f256 * 255) \div 256
  IN CASE index = 0 -> <<v, t, p>>
       [] index = 1 -> <<q, v, p>>
       [] index = 2 -> <<p, v, t>>
       [] index = 3 -> <<p, q, v>>
       [] index = 4 -> <<t, p, v>>
       [] index = 5 -> <<v, p, q>>

\* --------------------------------------------------------------- colorize
\* static_cast to an integer type of std::round(a), for a >= 0: undefined for
\* NAN and the infinities, where this build yields u
ToInteger(a, u) == IF IsFinite(a) /\ a >= 0 THEN RoundDiv(a, Scale) ELSE u

\* the smoothing term of methods 0 and 1
SmoothDx(Zv) ==
  FDiv(FSub(FLog(FLog(fractal_opt.escape_limit)), FLog(FLog(KAbs(Zv)))),
       FLog(fractal_opt.exponent))

\* lines 196-198: the channels of method 0 from the smoothed count
GoldSmooth(nprime) ==
  <<FRound(FMul(nprime, FromInt(2))), FRound(nprime),
    FRound(FDiv(nprime, FromInt(2)))>>

\* the three channels of method 0, before the log passes
Gold(Zv, nv) ==
  IF color_opt.smooth THEN GoldSmooth(FAdd(FromInt(nv), SmoothDx(Zv)))
  ELSE <<FromInt(nv * 2), FromInt(nv), FromInt(nv \div 2)>>

\* lines 534-558: c_log passes of std::log, then the multiplier (not for 9)
RECURSIVE LogPasses(_, _)
LogPasses(v, k) == IF k = 0 THEN v ELSE LogPasses(FLog(v), k - 1)
Scaled(color_method, v) ==
  IF color_method # 9 THEN FMul(LogPasses(v, color_opt.c_log), color_opt.multiplier)
  ELSE LogPasses(v, color_opt.c_log)

\* lines 560-585: above 255 becomes 255, below 0 becomes 0; NAN is neither
Clamp(v) ==
  IF FGt(v, FromInt(255)) THEN FromInt(255)
  ELSE IF FLt(v, 0) THEN 0
  ELSE v

\* a cast to int, where this build yields the least int for a NAN
ToInt(v, u) == IF IsFinite(v) THEN RoundDiv(v, Scale) ELSE -2147483647 - 1

\* lines 587-589: static_cast<uint8_t>(std::round(v)); undefined when the
\* rounded value is no uint8_t, where this build yields the byte u
ToUint8(v, u) ==
  IF IsFinite(v) /\ RoundDiv(v, Scale) \in 0..255 THEN RoundDiv(v, Scale) ELSE u

Finish(color_method, rgb, u) ==
  [i \in 1..3 |-> ToUint8(Clamp(Scaled(color_method, rgb[i])), u)]

\* case 1, lines 232-242: green is above 255, and blue has become blue1
GreenOver(red0, blue1) ==
  IF FGt(blue1, FromInt(255))
  THEN <<FMul(blue1, FromInt(2)), FromInt(200), FromInt(200)>>
  ELSE <<red0, FromInt(255), blue1>>

\* case 1, lines 230-243, from the channels as lines 211-229 leave them
Green(red0, green0, blue0) ==
  IF FGt(green0, FromInt(255))
  THEN GreenOver(red0, FMul(FSub(green0, FromInt(255)), FromInt(2)))
  ELSE <<red0, green0, blue0>>

\* case 4: red = green = blue
Grey(v) == <<v, v, v>>

\* case 8, lines 381-388: INT128_MAX / 255, and blue before it is scaled
Int128Limit == FromInt((INT128_MAX \div Scale) \div 255)
PinkXor(Zr2, Zi2, u) ==
  IF FGt(Zi2, Int128Limit) \/ FGt(Zr2, Int128Limit) THEN INT128_MAX
  ELSE FromInt(Xor(ToInteger(FMul(Zi2, FromInt(255)), u),
                   ToInteger(FMul(Zr2, FromInt(255)), u)))

\* case 8, lines 389-394
Pink(red0, green0, blue0) ==
  <<FMul(FAdd(red0, FMul(blue0, Lit(5, 10))), Lit(1, 10)),
    FMul(FAdd(green0, FMul(blue0, Lit(2, 10))), Lit(1, 10)),
    FMul(blue0, Lit(1, 10))>>

\* case 9, lines 402-409 and 430-435: the xor of the squares times k,
\* darkened, multiplied, and cut at 255
Cut255(v) == IF FGt(v, FromInt(255)) THEN FromInt(255) ELSE v
Grid(Zr2, Zi2, k, u) ==
  Cut255(FMul(FMul(FromInt(Xor(ToInteger(FMul(Zr2, FromInt(k)), u),
                               ToInteger(FMul(Zi2, FromInt(k)), u))),
                   Lit(7, 10)),
              color_opt.multiplier))

\* case 9, lines 411-428: a stripe before green_stripe += blue_stripe
Stripe(num, den, u) ==
  IF FEq(den, 0) THEN 255 ELSE ToInteger(FDiv(num, den), u)

\* v -= (w > v ? v : w)
Less(v, w) == FSub(v, IF FGt(w, v) THEN v ELSE w)
MinInt(a, b) == IF a < b THEN a ELSE b

\* case 9, lines 439-455, from the cut channels and stripes; sub is the sum
\* of the channels of colorize(0, Z, c, n), which are gold
Striped(red, green, blue, blue_stripe, green_stripe, sub, gold) ==
  <<FAdd(Less(Less(Less(red, FromInt(blue_stripe)), FromInt(green_stripe)),
              FromInt(sub)),
         FromInt(gold[1])),
    FAdd(Less(Less(green, FromInt(blue_stripe)), FromInt(green_stripe)),
         FromInt(green_stripe - MinInt(sub, green_stripe) + gold[2])),
    FAdd(Less(Less(blue, FromInt(blue_stripe)), FromInt(green_stripe)),
         FromInt(blue_stripe - MinInt(sub, blue_stripe) + gold[3]))>>

\* case 9, lines 428-437, from the stripes as lines 411-427 compute them
StripedFrom(Zr2, Zi2, u, gold, blue_stripe, green_stripe) ==
  Striped(Grid(Zr2, Zi2, 8, u), Grid(Zr2, Zi2, 2, u), Grid(Zr2, Zi2, 4, u),
          MinInt(blue_stripe, 255), MinInt(green_stripe + blue_stripe, 255),
          gold[1] + gold[2] + gold[3], gold)

\* case 17, lines 520-525
Waves(r, g) ==
  <<FMul(r, FromInt(127)), FMul(g, FromInt(127)), FMul(FMul(r, g), FromInt(127))>>

\* the switch: the channels of each method before the log passes, from Zr2
\* and Zi2 (lines 185-186); method 9 is given the pixel that
\* colorize(0, Z, c, n) returned
ChannelsOf(color_method, Zv, nv, u, gold, Zr2, Zi2) ==
  CASE color_method = 0 -> Gold(Zv, nv)
    [] color_method = 1 ->
         Green(IF ~color_opt.disable_fancy THEN Zr2 ELSE 0,
               IF color_opt.smooth
               THEN FRound(FAdd(FromInt(nv), SmoothDx(Zv))) ELSE FromInt(nv),
               IF ~color_opt.disable_fancy THEN Zi2 ELSE 0)
    [] color_method = 2 ->
         <<FMul(Zr2, Zi2), FAdd(Zr2, Zi2),
           IF FEq(Zi2, 0) THEN INF ELSE FDiv(Zr2, Zi2)>>
    [] color_method = 3 ->
         IF FEq(Zr2, 0) THEN <<INF, INF, FMul(Zi2, Zi2)>>
         ELSE <<FDiv(FAdd(FMul(FMul(Zr2, Zr2), Zr2), FromInt(1)), Zr2),
                FDiv(Zi2, Zr2), FMul(Zi2, Zi2)>>
    [] color_method = 4 ->
         Grey(FSub(FMul(Zv.real, FSin(FAdd(Zv.imag, Zi2))), Zr2))
    [] color_method = 5 ->
         <<IF FLe(Zr2, 0) THEN UINT_FAST64_MAX
           ELSE FRound(FDiv(FromInt(1), Zr2)),
           IF FLe(Zr2, Lit(588, 100000)) THEN UINT_FAST64_MAX
           ELSE FRound(FDiv(Lit(15, 10), Zr2)),
           IF FLe(Zr2, Lit(294, 100000)) THEN UINT_FAST64_MAX
           ELSE FRound(FDiv(Lit(75, 100), Zr2))>>
    [] color_method = 6 ->
         IF FEq(Zr2, 0) THEN <<UINT_FAST64_MAX, UINT_FAST64_MAX, UINT_FAST64_MAX>>
         ELSE <<FRound(FDiv(Lit(15, 10), Zr2)), FRound(FDiv(Lit(75, 100), Zr2)),
                FRound(FDiv(FromInt(1), Zr2))>>
    [] color_method = 7 ->
         <<IF FLe(Zr2, Lit(294, 100000)) THEN UINT_FAST64_MAX
           ELSE FRound(FDiv(Lit(75, 100), Zr2)),
           IF FLe(Zr2, Lit(392, 100000)) THEN UINT_FAST64_MAX
           ELSE FRound(FDiv(FromInt(1), Zr2)),
           IF FLe(Zr2, Lit(588, 100000)) THEN UINT_FAST64_MAX
           ELSE FRound(FDiv(Lit(15, 10), Zr2))>>
    [] color_method = 8 ->
         Pink(IF FEq(Zr2, 0) THEN INF
              ELSE FAdd(FDiv(Zi2, Zr2), FromInt(nv * 2)),
              IF FEq(Zi2, 0) THEN INF ELSE FAdd(FDiv(Zr2, Zi2), FromInt(nv)),
              PinkXor(Zr2, Zi2, u))
    [] color_method = 9 ->
         StripedFrom(Zr2, Zi2, u, gold, Stripe(Zi2, Zr2, u), Stripe(Zr2, Zi2, u))
    [] color_method = 10 ->
         <<FromInt(Xor(nv * 2, nv)), FromInt(nv), FromInt(Xor(nv \div 2, nv))>>
    [] color_method = 11 -> <<Zr2, FMul(Zr2, Zi2), Zi2>>
    [] color_method = 12 -> <<FromInt(255), FromInt(255), FromInt(255)>>
    [] color_method = 13 ->
         <<FromInt(nv * 4 + 5), FromInt(nv * 2 + 1), FromInt(nv * 4 + 2)>>
    [] color_method = 14 ->
         <<FromInt(rand(nv, 1) % 256), FromInt(rand(nv, 2) % 256),
           FromInt(rand(nv, 3) % 256)>>
    [] color_method = 15 ->
         <<FromInt(HSV2RGB(nv % 256)[1]), FromInt(HSV2RGB(nv % 256)[2]),
           FromInt(HSV2RGB(nv % 256)[3])>>
    [] color_method = 16 ->
         <<FMul(FromInt(nv * nv), Lit(1, 10)), FromInt(nv), FMul(Zr2, Zi2)>>
    [] color_method = 17 ->
         Waves(FMul(FromInt(2), FSin(Zr2)), FMul(FromInt(2), FCos(Zi2)))

Channels(color_method, Zv, nv, u, gold) ==
  ChannelsOf(color_method, Zv, nv, u, gold,
             FMul(Zv.real, Zv.real), FMul(Zv.imag, Zv.imag))

\* the color methods the switch of colorize has a case for
ValidMethod(color_method) == color_method \in 0..17

\* colorize(color_method, Z, c, n) in a build whose undefined conversions
\* yield u: the pixel <<r, g, b>>, or "throw" for a method the switch lacks
colorize(color_method, Zv, cv, nv, u) ==
  IF ~ValidMethod(color_method) THEN "throw"
  ELSE Finish(color_method,
              Channels(color_method, Zv, nv, u,
                       IF color_method = 9
                       THEN Finish(0, Channels(0, Zv, nv, u, <<0, 0, 0>>), u)
                       ELSE <<0, 0, 0>>),
              u)

\* ---------------------------------------------------------- configurations
\* the fractal types whose recurrence is rational arithmetic and square roots
\* (untitled 1 and collatz need the complex exponential)
Types ==
  {"mandelbrot", "julia", "burning ship", "tricorn", "neuron", "clouds", "oops",
   "stupidbrot", "dots", "magnet 1", "experiment", "mandelbox", "negamandelbrot",
   "experiment2"}

\* one combination of command-line arguments
Args(t, single, mi, pc_, r, box, el, method, smooth, cm, clog) ==
  [t |-> t, single |-> single, mi |-> mi, pc |-> pc_, r |-> r,
   lbound |-> -box, rbound |-> box, bbound |-> -box, ubound |-> box,
   el |-> el, method |-> method, smooth |-> smooth, cm |-> cm, clog |-> clog]

\* the arguments a with -lbound, -rbound, -bbound and -ubound given (lines
\* 1227-1230)
Bounds(a, l, r, b, u) ==
  [a EXCEPT !.lbound = l, !.rbound = r, !.bbound = b, !.ubound = u]

\* the argument combinations the renders start from: every type in both modes
\* with every budget, window and size; escape limits and boxes of the
\* mandelbrot and the julia set; every color method, with and without smoothing, log passes and
\* a multiplier; names and methods the program does not know; a 2x2 picture
\* of the square [-3, 1] x [-3, 1], whose first row holds the points (-2, 0)
\* and (0, 0), with escape limit 5; a 2x2 mandelbox picture of the square
\* [-4, 4] x [-4, 4], whose points are (2, 2) and its mirror images
ArgSets ==
  {Args(t, s, mi, w, r, 2, 4, 0, FALSE, 1, 0) :
     t \in Types, s \in BOOLEAN, mi \in 0..MaxIter, w \in 0..MaxWindow,
     r \in 1..MaxDim}
  \cup {Args(t, FALSE, mi, w, r, box, el, 0, FALSE, 1, 0) :
          t \in {"mandelbrot", "julia"}, mi \in 0..MaxIter, w \in 0..MaxWindow,
          r \in 1..MaxDim, box \in {1, 2}, el \in {1, 4}}
  \cup {Args("mandelbrot", FALSE, MaxIter, 1, MaxDim, 2, 4, m, sm, 1, 0) :
          m \in 0..18, sm \in BOOLEAN}
  \cup {Args("mandelbrot", TRUE, 1, 1, MaxDim, 2, 4, m, FALSE, 1, 0) :
          m \in 0..18}
  \cup {Args("mandelbrot", FALSE, MaxIter, 1, MaxDim, 2, 4, m, FALSE, 3, 1) :
          m \in 0..18}
  \cup {Args("bogus", s, MaxIter, 1, MaxDim, 2, 4, m, FALSE, 1, 0) :
          s \in BOOLEAN, m \in {0, 18}}
  \cup {Bounds(Args("mandelbrot", FALSE, mi, w, 2, 2, 5, 0, FALSE, 1, 0),
                -3, 1, -3, 1) : mi \in 0..MaxIter, w \in 0..MaxWindow}
  \cup {Args("mandelbox", FALSE, mi, w, 2, 4, 4, 0, FALSE, 1, 0) :
          mi \in 0..MaxIter, w \in 0..MaxWindow}

\* ------------------------------------------------------------------- Init
Pixels == (0..(width_px - 1)) \X (0..(height_px - 1))

NoResult == [set |-> FALSE, image |-> <<>>, stats |-> <<>>]

\* the statics as main has set them from the parsed arguments (lines
\* 1193-1208 and 1219-1235); the type is still the static default (line 106)
InitAt(a, start, cv) ==
  /\ typestr = a.t
  /\ fractal_opt = [type |-> "mandelbrot", exponent |-> FromInt(2),
                    escape_limit |-> FromInt(a.el), single |-> a.single,
                    lbound |-> FromInt(a.lbound), rbound |-> FromInt(a.rbound),
                    bbound |-> FromInt(a.bbound), ubound |-> FromInt(a.ubound),
                    juliaA |-> Lit(-8, 10), juliaB |-> Lit(156, 1000)]
  /\ color_opt = [method |-> a.method, smooth |-> a.smooth,
                  disable_fancy |-> FALSE, multiplier |-> FromInt(a.cm),
                  c_log |-> a.clog]
  /\ width_px = a.r
  /\ height_px = a.r
  /\ max_iterations = a.mi
  /\ pCheckN = a.pc
  /\ cancel = FALSE
  /\ elapsed = FALSE
  /\ ub = -1
  /\ pc = start
  /\ pY = 0 /\ pX = 0 /\ currentPoint = 0
  /\ periodic = 0 /\ escaped = 0 /\ not_escaped = 0 /\ skipped = 0
  /\ run = 0 /\ max_n = 0 /\ max_period = 0 /\ max_period_n = 0
  /\ image = [p \in (0..(a.r - 1)) \X (0..(a.r - 1)) |-> <<0, 0, 0>>]
  /\ pCheck = <<>>
  /\ c = cv /\ Z = KZero /\ n = 0
  /\ bug_reported = FALSE
  /\ hist = [outcome |-> [p \in (0..(a.r - 1)) \X (0..(a.r - 1)) |-> <<>>],
             writes |-> [p \in (0..(a.r - 1)) \X (0..(a.r - 1)) |-> 0],
             polled |-> FALSE, late |-> FALSE, late_write |-> FALSE,
             late_visits |-> 0, iterations |-> 0, events |-> {},
             first |-> NoResult]

InitWith(a) == InitAt(a, "main", KZero)

Init == \E a \in ArgSets : InitWith(a)

\* ------------------------------------------------------------------- main
Stats ==
  <<escaped, not_escaped, periodic, skipped, run, max_n, max_period, max_period_n>>

options == <<typestr, color_opt, width_px, height_px, max_iterations, pCheckN>>
counters == <<escaped, not_escaped, periodic, skipped, run, max_n, max_period,
              max_period_n, currentPoint>>
orbit == <<pCheck, c, Z, n>>

\* a column loop that steps by two
AfterColumnByTwo(col, row) ==
  IF col + 2 < width_px THEN [pc |-> "pixel", pX |-> col + 2, pY |-> row]
  ELSE IF row + 1 < height_px THEN [pc |-> "pixel", pX |-> 0, pY |-> row + 1]
  ELSE [pc |-> "finish", pX |-> 0, pY |-> row + 1]

\* where the for loops go after the pixel (col, row): the next column, the
\* next row, or past the last row
AfterColumn(col, row) ==
  IF col + 1 < width_px THEN [pc |-> "pixel", pX |-> col + 1, pY |-> row]
  ELSE IF row + 1 < height_px THEN [pc |-> "pixel", pX |-> 0, pY |-> row + 1]
  ELSE [pc |-> "finish", pX |-> 0, pY |-> row + 1]

\* where the loops go after a break out of the column loop in row `row`
AfterBreak(row) ==
  IF row + 1 < height_px THEN [pc |-> "pixel", pX |-> 0, pY |-> row + 1]
  ELSE [pc |-> "finish", pX |-> 0, pY |-> row + 1]

\* main, lines 1209-1250: the type name is converted; an unknown name ends
\* the program with status 1, otherwise createFractal starts (lines 916-951)
main ==
  /\ pc = "main"
  /\ LET t == string_to_fractal_type(typestr)
     IN IF t = "throw"
        THEN /\ pc' = "exit1"
             /\ UNCHANGED fractal_opt
        ELSE /\ fractal_opt' = [fractal_opt EXCEPT !.type = t]
             /\ pc' = IF height_px > 0 /\ width_px > 0 THEN "pixel" ELSE "finish"
  /\ UNCHANGED <<options, cancel, elapsed, ub, pY, pX, counters, image,
                 orbit, bug_reported, hist>>

\* the signal handler of line 1244: SIGINT sets cancel
ctrl_c_handler ==
  /\ pc \in {"pixel", "iter", "pixel_end", "finish"}
  /\ ~cancel
  /\ cancel' = TRUE
  /\ UNCHANGED <<options, fractal_opt, elapsed, ub, pc, pY, pX, counters,
                 image, orbit, bug_reported, hist>>

\* the steady clock, as line 954 reads it at the head of the column loop: a
\* second has passed since previous_time
tick ==
  /\ pc = "pixel"
  /\ ~elapsed
  /\ elapsed' = TRUE
  /\ UNCHANGED <<options, fractal_opt, cancel, ub, pc, pY, pX, counters,
                 image, orbit, bug_reported, hist>>

\* ---------------------------------------------------------- createFractal
\* the point of pixel (col, row): the centre of its cell (lines 918-921, 961-962)
PointX(col) ==
  LET xinterval == FDiv(FSub(fractal_opt.rbound, fractal_opt.lbound),
                        FromInt(width_px))
  IN FAdd(FAdd(fractal_opt.lbound, FMul(FromInt(col), xinterval)),
          FDiv(xinterval, FromInt(2)))
PointY(row) ==
  LET yinterval == FDiv(FSub(fractal_opt.ubound, fractal_opt.bbound),
                        FromInt(height_px))
  IN FSub(FSub(fractal_opt.ubound, FMul(FromInt(row), yinterval)),
          FDiv(yinterval, FromInt(2)))

\* lines 971-987: the first orbit value and the point c of a pixel
InitialZ(x, y) ==
  IF fractal_opt.type # "clouds" /\ fractal_opt.type # "mandelbrot"
  THEN K(x, y) ELSE KZero
InitialC(x, y) ==
  IF fractal_opt.type = "julia" THEN K(fractal_opt.juliaA, fractal_opt.juliaB)
  ELSE K(x, y)

Record(kind, nv, Zv) == [kind |-> kind, n |-> nv, Z |-> Zv]

\* a window that is filled for the first pixel only, and then keeps what the
\* previous pixel left in it
fill_first(window, Zv) ==
  IF Len(window) = pCheckN /\ pCheckN > 0 THEN window
  ELSE [i \in 1..pCheckN |-> Zv]

\* line 989: std::fill(pCheck.begin(), pCheck.end(), Z)
fill(window, Zv) == [i \in 1..pCheckN |-> Zv]

\* lines 951-989: one pass of the column loop up to the classification loop:
\* the progress line (printed when a second has passed, which restarts the
\* second), the point, the skip test, the start of the orbit
pixel ==
  /\ pc = "pixel"
  /\ LET x == PointX(pX)
         y == PointY(pY)
         p == <<pX, pY>>
         h == [hist EXCEPT !.late = cancel,
                           !.late_visits = IF hist.polled THEN @ + 1 ELSE @]
     IN /\ elapsed' = FALSE
        /\ IF can_skip(x, y)
           THEN /\ skipped' = skipped + 1
                /\ pc' = "pixel_end"
                /\ hist' = [h EXCEPT !.outcome[p] = Append(@, Record("skipped", 0, KZero))]
                /\ UNCHANGED orbit
           ELSE /\ Z' = InitialZ(x, y)
                /\ c' = InitialC(x, y)
                /\ pCheck' = fill(pCheck, InitialZ(x, y))
                /\ n' = 0
                /\ pc' = "iter"
                /\ hist' = h
                /\ UNCHANGED skipped
  /\ UNCHANGED <<options, fractal_opt, cancel, ub, pY, pX, escaped, not_escaped,
                 periodic, run, max_n, max_period, max_period_n, currentPoint,
                 image, bug_reported>>

\* a search that finds nothing
LocationNowhere(window, Zv) == 0

\* the first window entry equal to Zv, or 0 (std::find, line 1017)
Location(window, Zv) ==
  IF \E i \in 1..Len(window) : KEq(window[i], Zv)
  THEN CHOOSE i \in 1..Len(window) :
         /\ KEq(window[i], Zv)
         /\ \A j \in 1..(i - 1) : ~KEq(window[j], Zv)
  ELSE 0

\* whether colorize's result depends on what an undefined conversion yields
NeedsUb(color_method, Zv, cv, nv) ==
  colorize(color_method, Zv, cv, nv, 0) # colorize(color_method, Zv, cv, nv, 255)

\* what colorize is given for u: no call reads it before an undefined
\* conversion has been met
UbValue(u) == IF u = -1 THEN 0 ELSE u

\* the outcomes of this build's undefined conversions, once one has been met
UbChoices(needed) == IF needed /\ ub = -1 THEN 0..255 ELSE {ub}

\* a set_pixel that leaves the image as it is
set_pixel_dropped(img, p, colour) == img

\* image.set_pixel(pX, pY, colour), line 1002
set_pixel(img, p, colour) == [img EXCEPT ![p] = colour]

\* an escape test that also tests the first orbit value
TerminatesFromZero(Zv, nv) ==
  \/ fractal_opt.single /\ nv = max_iterations
  \/ ~fractal_opt.single /\ FGt(KNorm(Zv), fractal_opt.escape_limit)

\* an escape test that reads the modulus in single mode too
TerminatesOnModulus(Zv, nv) ==
  \/ fractal_opt.single /\ nv = max_iterations
  \/ FGt(KNorm(Zv), fractal_opt.escape_limit) /\ nv > 0

\* lines 994-995: the test that ends the loop with an escaped pixel
Terminates(Zv, nv) ==
  \/ fractal_opt.single /\ nv = max_iterations
  \/ ~fractal_opt.single /\ FGt(KNorm(Zv), fractal_opt.escape_limit) /\ nv > 0

\* a count of the passes that go on to call iterate
count_advance(r, ends) == IF ends THEN r ELSE r + 1

\* line 993: ++run at the head of every pass of the loop, whether the pass
\* ends the loop (`ends`) or goes on to call iterate
count_pass(r, ends) == r + 1

\* lines 991-1047: one pass of the classification loop of pixel (pX, pY)
iter ==
  /\ pc = "iter"
  /\ run' = count_pass(run, Terminates(Z, n) \/ n = max_iterations)
  /\ LET p == <<pX, pY>>
     IN IF Terminates(Z, n)
        THEN \* lines 997-1003
             /\ escaped' = escaped + 1
             /\ max_n' = IF n > max_n THEN n ELSE max_n
             /\ IF ValidMethod(color_opt.method)
                THEN \E u \in UbChoices(NeedsUb(color_opt.method, Z, c, n)) :
                       /\ ub' = IF NeedsUb(color_opt.method, Z, c, n) THEN u ELSE ub
                       /\ image' = set_pixel(image, p,
                                             colorize(color_opt.method, Z, c, n,
                                                      UbValue(u)))
                       /\ pc' = "pixel_end"
                       /\ hist' = [hist EXCEPT
                                     !.outcome[p] = Append(@, Record("escaped", n, Z)),
                                     !.writes[p] = @ + 1,
                                     !.late_write = @ \/ hist.late]
                ELSE \* colorize throws, and nothing catches it
                     /\ pc' = "terminate"
                     /\ hist' = [hist EXCEPT
                                   !.outcome[p] = Append(@, Record("escaped", n, Z))]
                     /\ UNCHANGED <<ub, image>>
             /\ UNCHANGED <<not_escaped, periodic, max_period, max_period_n, orbit>>
        ELSE IF n = max_iterations
        THEN \* lines 1005-1010
             /\ not_escaped' = not_escaped + 1
             /\ pc' = "pixel_end"
             /\ hist' = [hist EXCEPT
                           !.outcome[p] = Append(@, Record("not_escaped", n, Z))]
             /\ UNCHANGED <<escaped, periodic, max_n, max_period, max_period_n, ub,
                            image, orbit>>
        ELSE \* lines 1012-1046
             LET next == iterate(Z, c, n)
                 location == Location(pCheck, next.Z)
                 checking == ~fractal_opt.single /\ pCheckN > 0
                 h == [hist EXCEPT !.iterations = @ + 1]
             IN /\ Z' = next.Z
                /\ c' = next.c
                /\ IF checking /\ location # 0
                   THEN LET pCheckIndex == pCheckN - location + 1
                        IN /\ max_period' = IF pCheckIndex > max_period
                                            THEN pCheckIndex ELSE max_period
                           /\ max_period_n' = IF n > max_period_n THEN n ELSE max_period_n
                           /\ periodic' = periodic + 1
                           /\ pc' = "pixel_end"
                           /\ hist' = [h EXCEPT
                                         !.outcome[p] =
                                           Append(@, Record("periodic", n, next.Z)),
                                         !.events = @ \cup {<<pCheckIndex, n>>}]
                           /\ UNCHANGED <<pCheck, n>>
                   ELSE /\ pCheck' = IF checking THEN Append(Tail(pCheck), next.Z)
                                     ELSE pCheck
                        /\ IF cancel
                           THEN /\ pc' = "pixel_end"
                                /\ hist' = h
                                /\ UNCHANGED n
                           ELSE /\ n' = n + 1
                                /\ pc' = "iter"
                                /\ hist' = h
                        /\ UNCHANGED <<periodic, max_period, max_period_n>>
                /\ UNCHANGED <<escaped, not_escaped, max_n, ub, image>>
  /\ UNCHANGED <<options, fractal_opt, cancel, elapsed, pY, pX, skipped,
                 currentPoint, bug_reported>>

\* lines 1050-1055 and the loop headers: the per-pixel poll of cancel, the
\* count of processed points, the next pixel
pixel_end ==
  /\ pc = "pixel_end"
  /\ IF cancel
     THEN /\ pc' = AfterBreak(pY).pc
          /\ pX' = AfterBreak(pY).pX
          /\ pY' = AfterBreak(pY).pY
          /\ hist' = [hist EXCEPT !.polled = TRUE]
          /\ UNCHANGED currentPoint
     ELSE /\ currentPoint' = currentPoint + 1
          /\ pc' = AfterColumn(pX, pY).pc
          /\ pX' = AfterColumn(pX, pY).pX
          /\ pY' = AfterColumn(pX, pY).pY
          /\ UNCHANGED hist
  /\ UNCHANGED <<options, fractal_opt, cancel, elapsed, ub, escaped, not_escaped,
                 periodic, skipped, run, max_n, max_period, max_period_n,
                 image, orbit, bug_reported>>

\* lines 1058-1087: the summary, the consistency message, the image file
finish ==
  /\ pc = "finish"
  /\ bug_reported' = (escaped + not_escaped + periodic + skipped # currentPoint)
  /\ pc' = "done"
  /\ UNCHANGED <<options, fractal_opt, cancel, elapsed, ub, pY, pX, counters,
                 image, orbit, hist>>

Next == main \/ ctrl_c_handler \/ tick \/ pixel \/ iter \/ pixel_end \/ finish

Spec == Init /\ [][Next]_vars

\* the program is run again with the same arguments, in the same build: the
\* first run's image and statistics are kept for comparison
Restart ==
  /\ pc = "done"
  /\ ~hist.first.set
  /\ pc' = "main"
  /\ fractal_opt' = [fractal_opt EXCEPT !.type = "mandelbrot"]
  /\ elapsed' = FALSE
  /\ pY' = 0 /\ pX' = 0 /\ currentPoint' = 0
  /\ periodic' = 0 /\ escaped' = 0 /\ not_escaped' = 0 /\ skipped' = 0
  /\ run' = 0 /\ max_n' = 0 /\ max_period' = 0 /\ max_period_n' = 0
  /\ image' = [p \in Pixels |-> <<0, 0, 0>>]
  /\ pCheck' = <<>>
  /\ c' = KZero /\ Z' = KZero /\ n' = 0
  /\ bug_reported' = FALSE
  /\ hist' = [outcome |-> [p \in Pixels |-> <<>>],
              writes |-> [p \in Pixels |-> 0],
              polled |-> FALSE, late |-> FALSE, late_write |-> FALSE,
              late_visits |-> 0, iterations |-> 0, events |-> {},
              first |-> [set |-> TRUE, image |-> image, stats |-> Stats]]
  /\ UNCHANGED <<options, cancel, ub>>

\* two runs of the program, neither of them interrupted
NextTwice == main \/ tick \/ pixel \/ iter \/ pixel_end \/ finish \/ Restart

SpecTwice == Init /\ [][NextTwice]_vars

\* ------------------------------------------------- skipping, and not skipping
\* the points of the square [-2, 2] x [-2, 2] on a grid of step 1/GridDen
GridPoints ==
  {K(Lit(i, GridDen), Lit(j, GridDen)) :
     i \in (-2 * GridDen)..(2 * GridDen), j \in (-2 * GridDen)..(2 * GridDen)}

\* a mandelbrot render with exponent 2 and escape limit 4, normal mode, no
\* periodicity window, at the point c
InitSkip ==
  \E g \in GridPoints :
    InitAt(Args("mandelbrot", FALSE, MaxIter, 0, 1, 2, 4, 0, FALSE, 1, 0),
           "skip_test", g)

\* lines 964-966 for the point c: the skip test and its count; the orbit is
\* then started all the same (lines 971-989), to see what the test cut short
skip_test ==
  /\ pc = "skip_test"
  /\ fractal_opt' = [fractal_opt EXCEPT !.type = string_to_fractal_type(typestr)]
  /\ skipped' = IF can_skip(c.real, c.imag) THEN 1 ELSE 0
  /\ Z' = InitialZ(c.real, c.imag)
  /\ n' = 0
  /\ pc' = "direct"
  /\ UNCHANGED <<options, cancel, elapsed, ub, pY, pX, currentPoint, periodic,
                 escaped, not_escaped, run, max_n, max_period, max_period_n,
                 image, pCheck, c, bug_reported, hist>>

\* lines 991-1012 with no end to the budget: the escape test, then the
\* recurrence. The index counts up to MaxIter and stays there: the test reads
\* only whether it is 0, and the mandelbrot recurrence does not read it
direct ==
  /\ pc = "direct"
  /\ IF Terminates(Z, n)
     THEN /\ escaped' = escaped + 1
          /\ pc' = "escaped"
          /\ UNCHANGED <<Z, n>>
     ELSE /\ Z' = iterate(Z, c, n).Z
          /\ n' = IF n < MaxIter THEN n + 1 ELSE n
          /\ UNCHANGED <<escaped, pc>>
  /\ UNCHANGED <<options, fractal_opt, cancel, elapsed, ub, pY, pX, currentPoint,
                 periodic, not_escaped, skipped, run, max_n, max_period,
                 max_period_n, image, pCheck, c, bug_reported, hist>>

NextSkip == skip_test \/ direct

SpecSkip == InitSkip /\ [][NextSkip]_vars

\* ------------------------------------------------------- colorize, called
\* values of Z: components that are zero (which brings in the infinity
\* sentinel of method 8), a fraction, negative, or infinite (an orbit in
\* single mode runs into infinity)
ZParts == {0, Lit(1, 2), FromInt(-1), INF}
ZValues ==
  {K(a, b) : a \in ZParts, b \in {0, FromInt(-1)}}
  \cup {K(0, INF), K(Lit(1, 2), Lit(1, 2))}

\* iteration counts: none, a small one, and one beyond every channel value
Counts == {0, MaxIter, MaxReal}

\* multipliers: the default, a larger one and a negative one
Multipliers == {FromInt(1), FromInt(3), FromInt(-1)}

\* a render has been set up with a color method, a number of log passes, and
\* smoothing or not for the methods that read it (0 and 1, and 9 through 0)
InitColor ==
  \E m \in 0..17, sm \in BOOLEAN, clog \in 0..2 :
    /\ sm => m \in {0, 1, 9}
    /\ InitAt(Args("mandelbrot", FALSE, MaxIter, 0, 1, 2, 4, m, sm, 1, clog),
           "arguments", KZero)

\* the multiplier, and the Z and n a pixel escapes with
arguments ==
  /\ pc = "arguments"
  /\ \E zv \in ZValues, nv \in Counts, cm \in Multipliers :
       /\ Z' = zv
       /\ n' = nv
       /\ color_opt' = [color_opt EXCEPT !.multiplier = cm]
  /\ pc' = "colorize"
  /\ UNCHANGED <<typestr, fractal_opt, width_px, height_px, max_iterations,
                 pCheckN, cancel, elapsed, ub, pY, pX, counters, image, pCheck,
                 c, bug_reported, hist>>

\* line 1002: the pixel is given what colorize returns
paint ==
  /\ pc = "colorize"
  /\ \E u \in UbChoices(NeedsUb(color_opt.method, Z, c, n)) :
       /\ ub' = u
       /\ image' = set_pixel(image, <<pX, pY>>,
                             colorize(color_opt.method, Z, c, n, UbValue(u)))
  /\ pc' = "painted"
  /\ UNCHANGED <<options, fractal_opt, cancel, elapsed, pY, pX, counters,
                 orbit, bug_reported, hist>>

NextColor == arguments \/ paint

SpecColor == InitColor /\ [][NextColor]_vars

\* ------------------------------------------------------- the box fold, called
\* the largest magnitude of a component given to the fold
FoldMax == 5

\* components: the multiples of 1/GridDen up to FoldMax, and whole numbers
FoldParts == {Lit(i, GridDen) : i \in (-FoldMax * GridDen)..(FoldMax * GridDen)}
FoldWhole == {FromInt(i) : i \in (-FoldMax)..FoldMax}

\* a mandelbox render is about to fold the orbit value held in c
InitFold ==
  \E x \in FoldParts, y \in FoldWhole :
    InitAt(Args("mandelbox", FALSE, MaxIter, 0, 1, 2, 4, 0, FALSE, 1, 0),
           "fold", K(x, y))

\* lines 687-688: Z.real = boxfold(Z.real); Z.imag = boxfold(Z.imag)
fold ==
  /\ pc = "fold"
  /\ Z' = K(boxfold(c.real), boxfold(c.imag))
  /\ pc' = "folded"
  /\ UNCHANGED <<options, fractal_opt, cancel, elapsed, ub, pY, pX, counters,
                 image, pCheck, c, n, bug_reported, hist>>

NextFold == fold

SpecFold == InitFold /\ [][NextFold]_vars

\* ----------------------------------------------------------------- claims
Total == escaped + not_escaped + periodic + skipped

Finished == pc = "done"

\* C1: when a render that was never cancelled finishes, every pixel of the
\* raster has exactly one outcome, and the four outcome counts add up to
\* width*height, which is also the number of processed points
C1_CountsCoverRaster ==
  (Finished /\ ~cancel) =>
    /\ Total = width_px * height_px
    /\ currentPoint = width_px * height_px
    /\ \A p \in Pixels : Len(hist.outcome[p]) = 1
    /\ ~bug_reported

\* a finished uncancelled render of the largest raster in which some pixels
\* escaped and others did not
C1_Witness ==
  /\ Finished /\ ~cancel
  /\ width_px = MaxDim
  /\ escaped > 0 /\ Total > escaped
  /\ currentPoint = MaxDim * MaxDim

\* C2 as stated: whenever the flag was set during a render, the finished
\* render's outcome counts add up to the number of processed points, and no
\* pixel visited after the flag was set has been written
C2_CancelledCountsMatch ==
  (Finished /\ cancel) => (Total = currentPoint /\ ~hist.late_write)

\* C3 as stated: after the per-pixel poll has seen the flag, no pixel is
\* visited any more
C3_PollStopsTraversal == hist.late_visits = 0

\* C4 as stated: with an unknown type name or a color method the switch has
\* no case for, the program never gets into createFractal: nothing is
\* classified, counted or written
UnknownConfiguration ==
  \/ string_to_fractal_type(typestr) = "throw"
  \/ ~ValidMethod(color_opt.method)

C4_RejectedAtConfiguration ==
  UnknownConfiguration =>
    /\ pc \in {"main", "exit1"}
    /\ run = 0 /\ Total = 0 /\ currentPoint = 0
    /\ \A p \in Pixels : hist.writes[p] = 0

\* the outcome of pixel p, once it has one
Outcome(p) == hist.outcome[p][1]
Classified(p) == Len(hist.outcome[p]) > 0

\* the pixel just classified is the one of c = (0,0), in a mandelbrot render
\* with exponent 2, normal mode, a budget of at least 1 and a window of at
\* least 1
OriginCase ==
  /\ pc = "pixel_end"
  /\ typestr = "mandelbrot"
  /\ fractal_opt.exponent = FromInt(2)
  /\ ~fractal_opt.single
  /\ max_iterations >= 1
  /\ pCheckN >= 1
  /\ Classified(<<pX, pY>>)
  /\ PointX(pX) = 0 /\ PointY(pY) = 0

\* C6 as stated: the pixel of c = (0,0) ends periodic with recorded index 1
C6_OriginPeriodicAtOne ==
  OriginCase =>
    (Outcome(<<pX, pY>>).kind = "periodic" /\ Outcome(<<pX, pY>>).n = 1)

\* C6, amended: with escape limit 4 the pixel of c = (0,0) is skipped and
\* never classified; with any other escape limit it ends periodic in the loop
\* pass with index 0, where Z_1 = 0 is found in the full window (period
\* pCheckN), and max_period_n stays 0 for it
C6_OriginPeriodicAtZero ==
  OriginCase =>
    IF fractal_opt.escape_limit = FromInt(4)
    THEN Outcome(<<pX, pY>>).kind = "skipped"
    ELSE /\ Outcome(<<pX, pY>>) = Record("periodic", 0, KZero)
         /\ max_period = pCheckN
         /\ (width_px = 1 => max_period_n = 0)

\* the origin pixel has been found periodic in a render with another escape
\* limit than 4
C6_Witness ==
  /\ OriginCase
  /\ fractal_opt.escape_limit # FromInt(4)
  /\ Outcome(<<pX, pY>>).kind = "periodic"
  /\ max_iterations = MaxIter /\ pCheckN = MaxWindow

\* C8 as stated: every traversed pixel is colorized and written exactly once
C8_EveryPixelWritten ==
  \A p \in Pixels : Classified(p) => hist.writes[p] = 1

\* what colorize returns for an outcome in this build
Painted(o) ==
  colorize(color_opt.method, o.Z, KZero, o.n, UbValue(ub))

\* C8, amended: a pixel is colorized and written, once, exactly when it ends
\* escaped (in single mode: when it reaches max_iterations), and it then
\* holds what colorize returned; skipped, periodic and bounded pixels are
\* never written and keep the image's initial value
C8_OnlyEscapedWritten ==
  /\ \A p \in Pixels :
       IF Classified(p) /\ Outcome(p).kind = "escaped"
          /\ ValidMethod(color_opt.method)
       THEN hist.writes[p] = 1
       ELSE hist.writes[p] = 0 /\ image[p] = <<0, 0, 0>>
  /\ (pc = "pixel_end" /\ hist.writes[<<pX, pY>>] = 1) =>
       image[<<pX, pY>>] = Painted(Outcome(<<pX, pY>>))

\* a finished render with a written pixel of another colour than the initial
\* one, and pixels of the three other outcomes left unwritten
C8_Witness ==
  /\ Finished
  /\ \E p \in Pixels : hist.writes[p] = 1 /\ image[p] # <<0, 0, 0>>
  /\ \E p \in Pixels :
       Classified(p) /\ Outcome(p).kind # "escaped" /\ hist.writes[p] = 0

\* the orbit of the point (x, y) up to k applications of the recurrence:
\* entry j + 1 holds Z_j, and c as the j-th call left it
RECURSIVE OrbitOf(_, _, _)
OrbitOf(x, y, k) ==
  IF k = 0 THEN <<[Z |-> InitialZ(x, y), c |-> InitialC(x, y)]>>
  ELSE LET prev == OrbitOf(x, y, k - 1)
       IN Append(prev, iterate(prev[k].Z, prev[k].c, k - 1))

\* Z_k has a squared modulus above the escape limit
ExceedsAt(orb, k) == FGt(KNorm(orb[k + 1].Z), fractal_opt.escape_limit)

\* the advance that computes Z_k finds it among the window's values, which
\* are the last pCheckN orbit values before it (Z_0 filling the rest)
MatchAt(orb, k) ==
  /\ pCheckN > 0
  /\ \E j \in (IF k > pCheckN THEN k - pCheckN ELSE 0)..(k - 1) :
       KEq(orb[j + 1].Z, orb[k + 1].Z)

\* k is the least index from 1 whose orbit value exceeds the limit, and no
\* advance up to the one that computed Z_k found a periodicity match
LeastEscape(orb, k) ==
  /\ k \in 1..max_iterations
  /\ ExceedsAt(orb, k)
  /\ \A j \in 1..(k - 1) : ~ExceedsAt(orb, j)
  /\ \A j \in 1..k : ~MatchAt(orb, j)

\* C10: in normal mode a pixel that is not skipped ends escaped, with index
\* n and value Z, exactly when n is the least index in 1..max_iterations
\* with |Z_n|^2 > escape_limit and no advance before the test of Z_n found a
\* periodicity match; Z is then Z_n; Z_0 is never tested, and a pixel ends
\* bounded only if Z at max_iterations does not exceed the limit
C10_EscapeAtLeastIndex ==
  (pc = "pixel_end" /\ ~fractal_opt.single /\ Classified(<<pX, pY>>)
     /\ Outcome(<<pX, pY>>).kind # "skipped") =>
    LET o == Outcome(<<pX, pY>>)
        orb == OrbitOf(PointX(pX), PointY(pY), max_iterations)
    IN /\ o.kind = "escaped" <=> \E k \in 1..max_iterations : LeastEscape(orb, k)
       /\ o.kind = "escaped" => (LeastEscape(orb, o.n) /\ o.Z = orb[o.n + 1].Z)
       /\ o.kind = "not_escaped" =>
            (max_iterations = 0 \/ ~ExceedsAt(orb, max_iterations))

\* a pixel whose first orbit value already exceeds the limit has escaped at
\* index 1, the last index of a budget of 1
C10_Witness ==
  LET p == <<pX, pY>>
  IN /\ pc = "pixel_end" /\ ~fractal_opt.single /\ Classified(p)
     /\ Outcome(p).kind = "escaped"
     /\ Outcome(p).n = 1
     /\ max_iterations = 1
     /\ ExceedsAt(OrbitOf(PointX(pX), PointY(pY), 0), 0)

C5_SkippedNeverEscapes ==
  pc \in {"direct", "escaped"} =>
    /\ skipped = 1 => (pc # "escaped" /\ ~Terminates(Z, n))
    /\ c \in {KZero, K(FromInt(-1), 0)} => skipped = 1
    /\ c = K(FromInt(1), FromInt(1)) =>
         /\ skipped = 0
         /\ (pc = "direct" /\ ~Terminates(Z, n)) => Z \in {KZero, c}

\* an accepted point off the real axis whose orbit has been followed past
\* MaxIter applications and is still within the limit
C5_Witness ==
  /\ pc = "direct"
  /\ skipped = 1
  /\ c.imag # 0
  /\ n = MaxIter
  /\ ~Terminates(Z, n)

ClassifiedPixels == {p \in Pixels : Classified(p)}

\* C11: in single mode no pixel is skipped, found periodic or bounded; a
\* pixel that is classified ends escaped at n = max_iterations with the
\* orbit value after exactly max_iterations applications of the recurrence,
\* whatever its modulus was on the way, with the window as it was filled, and
\* is written with what colorize returns for that n
C11_SingleRunsToBudget ==
  fractal_opt.single =>
    /\ not_escaped = 0 /\ periodic = 0 /\ skipped = 0
    /\ escaped = Cardinality(ClassifiedPixels)
    /\ (~cancel /\ pc # "iter") => hist.iterations = escaped * max_iterations
    /\ (pc = "pixel_end" /\ Classified(<<pX, pY>>)) =>
         LET o == Outcome(<<pX, pY>>)
             orb == OrbitOf(PointX(pX), PointY(pY), max_iterations)
         IN /\ o.kind = "escaped"
            /\ o.n = max_iterations
            /\ o.Z = orb[max_iterations + 1].Z
            /\ pCheck = [i \in 1..pCheckN |-> orb[1].Z]
            /\ ValidMethod(color_opt.method) =>
                 image[<<pX, pY>>] =
                   colorize(color_opt.method, o.Z, c, max_iterations, UbValue(ub))

\* a single-mode pixel whose orbit exceeded the escape limit before the last
\* index has run to the full budget and has been written
C11_Witness ==
  /\ pc = "pixel_end" /\ fractal_opt.single /\ Classified(<<pX, pY>>)
  /\ max_iterations = MaxIter
  /\ pCheckN > 0
  /\ Outcome(<<pX, pY>>).n = MaxIter
  /\ ExceedsAt(OrbitOf(PointX(pX), PointY(pY), MaxIter), MaxIter - 1)
  /\ hist.writes[<<pX, pY>>] = 1

\* lines 1018-1020 for the pixel just found periodic: the distance of the
\* entry std::find returned from the window's end (pCheckIndex); the window
\* and Z are as the search left them
MatchDistance == pCheckN - Location(pCheck, Z) + 1

\* the current pixel has just been found periodic
FoundPeriodic ==
  /\ pc = "pixel_end"
  /\ Classified(<<pX, pY>>)
  /\ Outcome(<<pX, pY>>).kind = "periodic"

\* C12 as stated: in normal mode with a window of k >= 1 entries, at the
\* head of the loop pass with index n the window has k entries, the orbit
\* values Z_(n-k+1) .. Z_n in order; a pixel found periodic at index n with
\* match distance d has 1 <= d <= k, and the new value Z_(n+1) equals the
\* orbit value produced d advances earlier
C12_MatchDistanceIsOrbitDistance ==
  (~fractal_opt.single /\ pCheckN > 0) =>
    /\ pc = "iter" =>
         LET orb == OrbitOf(PointX(pX), PointY(pY), n)
         IN /\ Len(pCheck) = pCheckN
            /\ \A i \in 1..pCheckN :
                 n - pCheckN + i >= 0 => pCheck[i] = orb[n - pCheckN + i + 1].Z
    /\ FoundPeriodic =>
         LET o == Outcome(<<pX, pY>>)
             orb == OrbitOf(PointX(pX), PointY(pY), o.n + 1)
         IN /\ o.Z = orb[o.n + 2].Z
            /\ MatchDistance \in 1..pCheckN
            /\ MatchDistance <= o.n + 1
            /\ KEq(orb[o.n + 2].Z, orb[o.n + 2 - MatchDistance].Z)

\* C13 as stated: when a render that was never cancelled and in which pixels
\* were found periodic has finished, (max_period, max_period_n) is one of the
\* detections: the largest match distance of all, and an index n at which a
\* pixel was found periodic with that distance
C13_PairIsOneDetection ==
  (Finished /\ ~cancel /\ periodic > 0) =>
    /\ \A e \in hist.events : e[1] <= max_period
    /\ <<max_period, max_period_n>> \in hist.events

\* C14 as stated: of a pixel found periodic in normal mode, no orbit value
\* Z_0 .. Z_(n+1), the one that matched the window included, has a squared
\* modulus above the escape limit
C14_PeriodicNeverExceeds ==
  (FoundPeriodic /\ ~fractal_opt.single) =>
    LET o == Outcome(<<pX, pY>>)
        orb == OrbitOf(PointX(pX), PointY(pY), o.n + 1)
    IN \A j \in 0..(o.n + 1) : ~ExceedsAt(orb, j)

Folded == {<<c.real, Z.real>>, <<c.imag, Z.imag>>}

\* C16 as stated: the fold maps every component into [-1, 1] and leaves a
\* component of [-1, 1] as it is
C16_FoldIntoBox ==
  pc = "folded" =>
    \A f \in Folded :
      /\ FLe(FromInt(-1), f[2]) /\ FLe(f[2], FromInt(1))
      /\ (FLe(FromInt(-1), f[1]) /\ FLe(f[1], FromInt(1))) => f[2] = f[1]

\* C16, amended: the fold reflects once: a component of [-1, 1] is left as
\* it is, a component of [-3, 3] is mapped into [-1, 1], a component above 3
\* is mapped to 2 - x, below -1, and a component below -3 to -2 - x, above 1;
\* the folded magnitude is never above the larger of 1 and |x| - 2
C16_FoldReflectsOnce ==
  pc = "folded" =>
    \A f \in Folded :
      /\ (FLe(FromInt(-1), f[1]) /\ FLe(f[1], FromInt(1))) => f[2] = f[1]
      /\ (FLe(FromInt(-3), f[1]) /\ FLe(f[1], FromInt(3))) =>
           (FLe(FromInt(-1), f[2]) /\ FLe(f[2], FromInt(1)))
      /\ FGt(f[1], FromInt(3)) =>
           (f[2] = FSub(FromInt(2), f[1]) /\ FLt(f[2], FromInt(-1)))
      /\ FLt(f[1], FromInt(-3)) =>
           (f[2] = FSub(FromInt(-2), f[1]) /\ FGt(f[2], FromInt(1)))
      /\ FLe(FAbs(f[2]), FromInt(1)) \/ FLe(FAbs(f[2]), FSub(FAbs(f[1]), FromInt(2)))

\* the component 5 has been folded to -3
C16_Witness ==
  /\ pc = "folded"
  /\ c.real = FromInt(FoldMax)
  /\ Z.real = FromInt(2 - FoldMax)
  /\ FLt(Z.real, FromInt(-1))

\* the advance that computes Z_k is the first to find a match, and no orbit
\* value tested before it exceeded the limit
LeastMatch(orb, k) ==
  /\ k \in 1..max_iterations
  /\ MatchAt(orb, k)
  /\ \A j \in 1..(k - 1) : ~MatchAt(orb, j) /\ ~ExceedsAt(orb, j)

\* the outcome of a pixel that is not skipped, from the orbit of its point
\* alone: lines 991-1047 for a loop that starts from a fresh c and window
OutcomeOf(orb) ==
  IF fractal_opt.single
  THEN Record("escaped", max_iterations, orb[max_iterations + 1].Z)
  ELSE IF \E k \in 1..max_iterations : LeastEscape(orb, k)
  THEN LET k == CHOOSE k \in 1..max_iterations : LeastEscape(orb, k)
       IN Record("escaped", k, orb[k + 1].Z)
  ELSE IF \E k \in 1..max_iterations : LeastMatch(orb, k)
  THEN LET k == CHOOSE k \in 1..max_iterations : LeastMatch(orb, k)
       IN Record("periodic", k - 1, orb[k + 1].Z)
  ELSE Record("not_escaped", max_iterations, orb[max_iterations + 1].Z)

\* the pixels counted with an outcome of this kind
Counted(kind) ==
  Cardinality({p \in ClassifiedPixels : Outcome(p).kind = kind})

\* C17: whatever pixels were processed before it, a pixel starts its loop
\* with Z, c and the window set from its own point; if it is classified, its
\* outcome is the one its point's orbit gives from a fresh start (skipped
\* exactly when the skip test accepts the point), the counter of that
\* outcome is the one raised, and an escaped pixel holds what colorize
\* returns for that outcome
C17_PixelsIndependent ==
  /\ (pc = "iter" /\ n = 0) =>
       LET orb == OrbitOf(PointX(pX), PointY(pY), 0)
       IN /\ Z = orb[1].Z
          /\ c = orb[1].c
          /\ pCheck = [i \in 1..pCheckN |-> orb[1].Z]
  /\ (pc = "pixel_end" /\ Classified(<<pX, pY>>)) =>
       LET o == Outcome(<<pX, pY>>)
       IN /\ o.kind = "skipped" <=> can_skip(PointX(pX), PointY(pY))
          /\ o.kind # "skipped" =>
               o = OutcomeOf(OrbitOf(PointX(pX), PointY(pY), max_iterations))
          /\ (o.kind = "escaped" /\ ValidMethod(color_opt.method)) =>
               image[<<pX, pY>>] = Painted(o)
  /\ escaped = Counted("escaped")
  /\ not_escaped = Counted("not_escaped")
  /\ periodic = Counted("periodic")
  /\ skipped = Counted("skipped")

\* in a clouds or oops render, whose recurrence assigns c, with a window, a
\* pixel that is not the first of its row has been classified after calls
\* of iterate, and the pixel before it had left another c behind
C17_Witness ==
  /\ pc = "pixel_end"
  /\ typestr \in {"clouds", "oops"}
  /\ pCheckN > 0 /\ ~fractal_opt.single
  /\ pX > 0
  /\ Classified(<<pX, pY>>) /\ Classified(<<pX - 1, pY>>)
  /\ Outcome(<<pX, pY>>).n > 0
  /\ Outcome(<<pX - 1, pY>>).n > 0
  /\ c # InitialC(PointX(pX), PointY(pY))

====
